---- MODULE Spec2Model ----
(***************************************************************************)
(* macwatchdog-cli: the quarantine / backup-restore subsystem shared by   *)
(* the launch-agent, login-item, port and profile managers, the forensics *)
(* menu (snapshots, timeline log) and the run of the audit probes.        *)
(*                                                                         *)
(* The filesystem below QUARANTINE_DIR, the launch-agent directories, the *)
(* login-item list, the open sockets and the installed profiles are the   *)
(* state.  One action models one whole handler; inputs typed at a prompt  *)
(* and failures of the operating system are drawn with \E.                *)
(*                                                                         *)
(* `events' and `result' are history variables: the ordered list of the   *)
(* effects of the last operation and its outcome.  No action reads them,  *)
(* except that `result' feeds the `prev' field of the next outcome.       *)
(***************************************************************************)
EXTENDS Integers, Sequences, FiniteSets, TLC

VARIABLES
    clock,          \* wall-clock second, the value strftime("%H%M%S") renders
    qdirExists,     \* QUARANTINE_DIR exists
    agentFiles,     \* files present in the three launch-agent directories
    backupFolders,  \* timestamps ts for which QUARANTINE_DIR/backup_<ts> exists
    quarantined,    \* files inside the backup_<ts> folders
    agentsCat,      \* the QUARANTINE_DIR/agents directory scanned by manage_unsigned
    loginItems,     \* login items as System Events reports them, in order
    loginBackups,   \* quarantine/login_items/login_item_backup_<ts>.json files
    sockets,        \* what lsof -i sees
    portBackups,    \* quarantine/ports/ports_backup_<ts>.json files
    profiles,       \* installed configuration profiles
    logFile,        \* quarantine/watchdog_timeline.log: whether it exists, its lines
    snapshots,      \* quarantine/snapshots/snapshot_<ts>.json files
    mdmState,       \* content of quarantine/mdm_state.json, or NoFile
    watchlist,      \* quarantine/auto_remove_watchlist.json: whether it exists, its ids
    hostEnv,        \* the host outside the tool: probes that meet a failure, probes that
                    \* find something, the MDM enrollment status, login-item
                    \* targets that were deleted from disk, the permission bits
                    \* of the files in the agent directories and the class of
                    \* the user who runs the tool
    events,         \* history: effects of the last operation, in program order
    result          \* history: outcome of the last operation

vars == <<clock, qdirExists, agentFiles, backupFolders, quarantined, agentsCat,
          loginItems, loginBackups, sockets, portBackups, profiles,
          logFile, snapshots, mdmState, watchlist, hostEnv, events, result>>

agentVars   == <<agentFiles, backupFolders, quarantined, agentsCat>>
loginVars   == <<loginItems, loginBackups>>
portVars    == <<sockets, portBackups>>
storeVars   == <<logFile, snapshots, mdmState, watchlist>>

----------------------------------------------------------------------------
(* Bounds *)

MaxClock      == 1   \* seconds 0..MaxClock
MaxAgentFiles == 2   \* files initially present in the agent directories
MaxSelect     == 2   \* length of a selection typed at a prompt
MaxLoginItems == 2   \* login items initially registered
MaxSockets    == 2   \* sockets initially open
MaxBackupLen  == 2   \* entries of a port backup file handed to restore

Timestamps == 0..MaxClock

RECURSIVE SeqsOfLen(_, _)
SeqsOfLen(S, n) ==
    IF n = 0 THEN {<<>>}
    ELSE {Append(s, x) : s \in SeqsOfLen(S, n - 1), x \in S}

SeqsUpTo(S, n) == UNION {SeqsOfLen(S, k) : k \in 0..n}

Range(s) == {s[i] : i \in 1..Len(s)}

SubsetsUpTo(S, n) == {T \in SUBSET S : Cardinality(T) <= n}

----------------------------------------------------------------------------
(* Launch agents: detection, quarantine, restore, purge  (src/main.py) *)

LaunchAgentsDir     == "/Library/LaunchAgents"
LaunchDaemonsDir    == "/Library/LaunchDaemons"
UserLaunchAgentsDir == "~/Library/LaunchAgents"

\* paths of find_unsigned_agents, in scan order
AgentDirs == {LaunchAgentsDir, LaunchDaemonsDir, UserLaunchAgentsDir}

AgentNames == {"com.foo.plist", "com.LaunchAgents.sync.plist", "com.apple.ok.plist"}

\* files codesign reports as "code object is not signed"
UnsignedNames == {"com.foo.plist", "com.LaunchAgents.sync.plist"}

\* the files the agent directories may hold when the tool starts
AgentFileSpace ==
    [dir : AgentDirs, name : {"com.foo.plist"}] \cup
    {[dir |-> LaunchDaemonsDir, name |-> "com.LaunchAgents.sync.plist"],
     [dir |-> LaunchAgentsDir,  name |-> "com.apple.ok.plist"]}

is_unsigned(f) == f.name \in UnsignedNames

\* find_unsigned_agents: every entry of the three directories that is unsigned
find_unsigned_agents(files) == {f \in files : is_unsigned(f)}

\* The strings of the model whose text contains the substring "LaunchAgents".
\* A quarantine path is <project>/quarantine/<folder>/<name>: the project
\* path and the folder names backup_<digits> do not contain it, so the test
\* `"LaunchAgents" in str(file_path)' is decided by the file name alone.
HasLaunchAgents(s) == s \in {"com.LaunchAgents.sync.plist", "LaunchAgents_old"}

\* the destination heuristic of restore_agents / manage_unsigned / search_items
RestoreDest(pathParts) ==
    IF \E s \in pathParts : HasLaunchAgents(s) THEN LaunchAgentsDir ELSE LaunchDaemonsDir

----------------------------------------------------------------------------
(* History bookkeeping *)

\* events that attempt the irreversible step of a remediation
MutationKinds == {"move", "move_failed", "kill", "login_delete", "profile_remove"}

\* answers typed at a (y/n) prompt: Y is taken like y, the word yes is not
ConfirmInputs == {"Y", "n", "yes"}

\* confirm.lower() == "y"
Confirms(confirm) == confirm \in {"y", "Y"}

\* what the previous operation was, as far as "twice in a row" needs it
PrevTag ==
    IF result.op = "purge" /\ result.confirmed
    THEN (IF result.raised THEN "purge_raised" ELSE "purge_done")
    ELSE "other"

----------------------------------------------------------------------------
(* quarantine_agents  (src/main.py 225-236) *)

\* one iteration of `for file_path in selected_files': shutil.move(file_path,
\* backup_dir) inside try/except.  The move raises when the source is gone,
\* when backup_dir already holds an entry of that name, or when the operating
\* system refuses (osfail); the except branch prints and the loop goes on.
MoveIntoFolder(st, f, ts, osfail) ==
    IF \/ f \notin st.files
       \/ \E q \in st.q : q.ts = ts /\ q.name = f.name
       \/ f \in osfail
    THEN [st EXCEPT !.ev = Append(@, "move_failed"),
                    !.attempts = Append(@, [file |-> f, ok |-> FALSE])]
    ELSE [files    |-> st.files \ {f},
          q        |-> st.q \cup {[ts |-> ts, name |-> f.name, from |-> f.dir]},
          ev       |-> Append(st.ev, "move"),
          attempts |-> Append(st.attempts, [file |-> f, ok |-> TRUE])]

\* MoveLoop without the try/except: the first failed move ends the loop
RECURSIVE MoveLoop_AbortOnFailure(_, _, _, _, _)
MoveLoop_AbortOnFailure(st, selected, i, ts, osfail) ==
    IF i > Len(selected) THEN st
    ELSE LET nxt == MoveIntoFolder(st, selected[i], ts, osfail)
         IN  IF nxt.ev[Len(nxt.ev)] = "move_failed" THEN nxt
             ELSE MoveLoop_AbortOnFailure(nxt, selected, i + 1, ts, osfail)

RECURSIVE MoveLoop(_, _, _, _, _)
MoveLoop(st, selected, i, ts, osfail) ==
    IF i > Len(selected) THEN st
    ELSE MoveLoop(MoveIntoFolder(st, selected[i], ts, osfail), selected, i + 1, ts, osfail)

\* QUARANTINE_DIR.mkdir(exist_ok=True); backup_dir.mkdir() raises
\* FileExistsError when a folder of this second exists; then the loop.
quarantine_agents(selected, ts, files, folders, q, osfail) ==
    IF ts \in folders
    THEN [raised |-> TRUE, files |-> files, folders |-> folders, q |-> q,
          ev |-> <<"mkdir", "mkdir_failed">>, attempts |-> <<>>]
    ELSE LET st == MoveLoop([files |-> files, q |-> q, ev |-> <<"mkdir", "mkdir">>,
                             attempts |-> <<>>], selected, 1, ts, osfail)
         IN  [raised |-> FALSE, files |-> st.files, folders |-> folders \cup {ts},
              q |-> st.q, ev |-> st.ev, attempts |-> st.attempts]

\* manage_unsigned, action "1": the selection is made from the list that
\* find_unsigned_agents printed ('a', or numbers in any order, repeats allowed)
QuarantineAgents ==
    /\ find_unsigned_agents(agentFiles) # {}
    /\ \E selected \in SeqsUpTo(find_unsigned_agents(agentFiles), MaxSelect) :
       \E osfail \in SUBSET Range(selected) :
         LET r == quarantine_agents(selected, clock, agentFiles, backupFolders,
                                    quarantined, osfail)
         IN  /\ qdirExists' = TRUE
             /\ agentFiles' = r.files
             /\ backupFolders' = r.folders
             /\ quarantined' = r.q
             /\ events' = r.ev
             /\ result' = [op |-> "quarantine", raised |-> r.raised, ts |-> clock,
                           selected |-> selected, attempts |-> r.attempts,
                           prev |-> PrevTag]
    /\ UNCHANGED <<storeVars, hostEnv>>
    /\ UNCHANGED <<clock, agentsCat, loginVars, portVars, profiles>>

----------------------------------------------------------------------------
(* restore_agents  (src/main.py 238-245) *)

\* one iteration: dest by the substring heuristic, shutil.move(file, dest)
\* inside try/except.  The move raises when dest already holds the name or
\* the operating system refuses.
MoveBack(st, q, osfail) ==
    LET dest == RestoreDest({q.name})
        f    == [dir |-> dest, name |-> q.name]
    IN  IF f \in st.files \/ q \in osfail
        THEN [st EXCEPT !.ev = Append(@, "restore_failed")]
        ELSE [files    |-> st.files \cup {f},
              q        |-> st.q \ {q},
              ev       |-> Append(st.ev, "restore"),
              restored |-> st.restored \cup {[name |-> q.name, from |-> q.from, to |-> dest]}]

RECURSIVE MoveBackLoop(_, _, _, _)
MoveBackLoop(st, order, i, osfail) ==
    IF i > Len(order) THEN st
    ELSE MoveBackLoop(MoveBack(st, order[i], osfail), order, i + 1, osfail)

\* the orders in which iterdir() may yield the entries of a folder
Orders(S) == {o \in SeqsOfLen(S, Cardinality(S)) : Range(o) = S}

restore_agents(ts, order, files, q, osfail) ==
    MoveBackLoop([files |-> files, q |-> q, ev |-> <<>>, restored |-> {}], order, 1, osfail)

RestoreAgents ==
    /\ \E ts \in backupFolders :
       LET inFolder == {q \in quarantined : q.ts = ts} IN
       \E order \in Orders(inFolder) :
       \E osfail \in SUBSET inFolder :
         LET r == restore_agents(ts, order, agentFiles, quarantined, osfail)
         IN  /\ agentFiles' = r.files
             /\ quarantined' = r.q
             /\ events' = r.ev
             /\ result' = [op |-> "restore_agents", raised |-> FALSE, ts |-> ts,
                           restored |-> r.restored, prev |-> PrevTag]
    /\ UNCHANGED <<storeVars, hostEnv>>
    /\ UNCHANGED <<clock, qdirExists, backupFolders, agentsCat, loginVars, portVars, profiles>>

----------------------------------------------------------------------------
(* manage_unsigned: the list, restore and purge of QUARANTINE_DIR/agents     *)
(* (src/main.py 488-573)                                                     *)

MaxCatEntries == 2   \* entries initially below QUARANTINE_DIR/agents

SubdirNames == {"backup_1", "backup_2"}
CatNames    == {"com.foo.plist", "com.LaunchAgents.sync.plist"}

\* an entry <agents>/<sub>/<name>; isdir: the entry is itself a directory
CatEntrySpace == [sub : SubdirNames, name : CatNames, isdir : BOOLEAN]

NoAgentsCat == [exists |-> FALSE, subdirs |-> {}, entries |-> {}, loose |-> FALSE]

\* lines 496-502: every entry of every sub-directory of agents_dir
QuarantinedList(cat) ==
    IF cat.exists THEN {e \in cat.entries : e.sub \in cat.subdirs} ELSE {}

\* lines 551-557, one iteration: the same heuristic on <agents>/<sub>/<name>
MenuMoveBack(st, e, osfail) ==
    LET dest == RestoreDest({e.sub, e.name})
        f    == [dir |-> dest, name |-> e.name]
    IN  IF e \notin st.entries \/ f \in st.files \/ e \in osfail
        THEN [st EXCEPT !.ev = Append(@, "restore_failed")]
        ELSE [files   |-> st.files \cup {f},
              entries |-> st.entries \ {e},
              ev      |-> Append(st.ev, "restore")]

RECURSIVE MenuMoveBackLoop(_, _, _, _)
MenuMoveBackLoop(st, selected, i, osfail) ==
    IF i > Len(selected) THEN st
    ELSE MenuMoveBackLoop(MenuMoveBack(st, selected[i], osfail), selected, i + 1, osfail)

\* manage_unsigned, action "2"
ManageRestore ==
    /\ QuarantinedList(agentsCat) # {}
    /\ \E selected \in SeqsUpTo(QuarantinedList(agentsCat), MaxSelect) :
       \E osfail \in SUBSET Range(selected) :
         LET st == MenuMoveBackLoop([files |-> agentFiles, entries |-> agentsCat.entries,
                                     ev |-> <<>>], selected, 1, osfail)
         IN  /\ agentFiles' = st.files
             /\ agentsCat' = [agentsCat EXCEPT !.entries = st.entries]
             /\ events' = st.ev
             /\ result' = [op |-> "manage_restore", raised |-> FALSE,
                           selected |-> selected, prev |-> PrevTag]
    /\ UNCHANGED <<storeVars, hostEnv>>
    /\ UNCHANGED <<clock, qdirExists, backupFolders, quarantined, loginVars, portVars, profiles>>

\* lines 561-566.  f.unlink() is not guarded: it raises for an entry that is
\* a directory and whenever the operating system refuses, and the exception
\* leaves the loops.  iterdir() order is arbitrary, so when the purge stops
\* at entry `stopAt' any set of failure-free sub-directories may already be
\* gone (doneDirs) and any failure-free entries of the same sub-directory
\* may already be unlinked (doneHere).
PurgeFails(cat, osfail) == {e \in QuarantinedList(cat) : e.isdir \/ e \in osfail}

PurgeComplete(cat) ==
    [cat EXCEPT !.subdirs = {}, !.entries = {}]

PurgeStopped(cat, stopAt, doneDirs, doneHere) ==
    [cat EXCEPT !.subdirs = @ \ doneDirs,
                !.entries = {e \in @ : e.sub \notin doneDirs /\ e \notin doneHere}]

\* manage_unsigned, action "3"
ManagePurge ==
    /\ \E confirm \in ConfirmInputs :
       IF ~Confirms(confirm)
       THEN /\ agentsCat' = agentsCat
            /\ events' = <<>>
            /\ result' = [op |-> "purge", confirmed |-> FALSE, raised |-> FALSE,
                          deleted |-> {}, before |-> agentsCat, prev |-> PrevTag]
       ELSE \E osfail \in SUBSET QuarantinedList(agentsCat) :
            LET fails == PurgeFails(agentsCat, osfail)
                clean == {d \in agentsCat.subdirs : \A e \in fails : e.sub # d}
            IN  IF (~agentsCat.exists) \/ fails = {}
                THEN /\ agentsCat' = (IF agentsCat.exists THEN PurgeComplete(agentsCat)
                                                          ELSE agentsCat)
                     /\ events' = <<"purged">>
                     /\ result' = [op |-> "purge", confirmed |-> TRUE, raised |-> FALSE,
                                   deleted |-> QuarantinedList(agentsCat),
                                   before |-> agentsCat, prev |-> PrevTag]
                ELSE \E stopAt \in fails :
                     \E doneDirs \in SUBSET clean :
                     \E doneHere \in SUBSET {e \in QuarantinedList(agentsCat) \ fails :
                                               e.sub = stopAt.sub} :
                       /\ agentsCat' = PurgeStopped(agentsCat, stopAt, doneDirs, doneHere)
                       /\ events' = <<"unlink_raised">>
                       /\ result' = [op |-> "purge", confirmed |-> TRUE, raised |-> TRUE,
                                     deleted |-> QuarantinedList(agentsCat) \
                                                 QuarantinedList(PurgeStopped(agentsCat, stopAt,
                                                                              doneDirs, doneHere)),
                                     before |-> agentsCat, prev |-> PrevTag]
    /\ UNCHANGED <<storeVars, hostEnv>>
    /\ UNCHANGED <<clock, qdirExists, agentFiles, backupFolders, quarantined,
                   loginVars, portVars, profiles>>

\* a second of wall-clock time passes between two operations
Tick ==
    /\ clock < MaxClock
    /\ clock' = clock + 1
    /\ UNCHANGED <<storeVars, hostEnv>>
    /\ UNCHANGED <<qdirExists, agentVars, loginVars, portVars, profiles, events, result>>

----------------------------------------------------------------------------
(* Quarantine Store records: <category>_backup_<YYYYMMDD_HHMMSS>.json        *)

\* open(backup_file, 'w') + json.dump: the file named by the second `ts' is
\* created, or truncated and rewritten when it exists
WriteRecord(store, ts, data) ==
    {r \in store : r.ts # ts} \cup {[ts |-> ts, data |-> data]}

----------------------------------------------------------------------------
(* Login items  (src/audit/login_items.py, src/main.py 822-939, 1080-1096)   *)

NoPath == "None"

\* the login items System Events can hold in this model
LoginItemSpace ==
    { [name |-> "Dropbox",   path |-> "/Applications/Dropbox.app"],
      [name |-> "helper",    path |-> "/usr/local/bin/helper.sh"],
      [name |-> "Acme, Inc", path |-> "/Applications/Acme.app"],
      [name |-> "ghost",     path |-> ""] }

\* s.strip().split(',') followed by strip() and the `if i.strip()' filter,
\* for one element of the osascript list
SplitComma(s) ==
    CASE s = ""          -> <<>>
      [] s = "Acme, Inc" -> <<"Acme", "Inc">>
      [] OTHER           -> <<s>>

RECURSIVE Flatten(_, _)
Flatten(items, field) ==
    IF items = <<>> THEN <<>>
    ELSE SplitComma(IF field = "name" THEN Head(items).name ELSE Head(items).path)
         \o Flatten(Tail(items), field)

EndsWithApp(p) == p \in {"/Applications/Dropbox.app", "/Applications/Acme.app"}

\* get_login_items, lines 22-51: names and paths are parsed separately and
\* paired by index
get_login_items(sys) ==
    LET items == Flatten(sys, "name")
        paths == Flatten(sys, "path")
    IN  [i \in 1..Len(items) |->
           LET path == IF i <= Len(paths) THEN paths[i] ELSE NoPath
           IN  [name |-> items[i],
                path |-> path,
                kind |-> IF path # NoPath /\ EndsWithApp(path) THEN "Application" ELSE "Script"]]

\* `delete login item "<name>"': System Events deletes the first item of that name
RECURSIVE DeleteFirst(_, _)
DeleteFirst(sys, name) ==
    IF sys = <<>> THEN <<>>
    ELSE IF Head(sys).name = name THEN Tail(sys)
    ELSE <<Head(sys)>> \o DeleteFirst(Tail(sys), name)

HasLoginItem(sys, name) == \E i \in 1..Len(sys) : sys[i].name = name

\* backup_login_item, src/main.py 1080-1096
backup_login_item(item, ts, store, fail) ==
    IF fail = "mkdir" THEN [ok |-> FALSE, store |-> store, ev |-> <<"mkdir_failed">>]
    ELSE IF fail = "write" THEN [ok |-> FALSE, store |-> store, ev |-> <<"mkdir", "write_failed">>]
    ELSE [ok |-> TRUE, store |-> WriteRecord(store, ts, item), ev |-> <<"mkdir", "backup_write">>]

\* manage_login_items, action "1"
BackupLoginItem ==
    /\ Len(get_login_items(loginItems)) > 0
    /\ \E i \in 1..Len(get_login_items(loginItems)) :
       \E fail \in {"none", "mkdir", "write"} :
         LET r == backup_login_item(get_login_items(loginItems)[i], clock, loginBackups,
                                    fail)
         IN  /\ loginBackups' = r.store
             /\ qdirExists' = (qdirExists \/ ("mkdir" \in Range(r.ev)))
             /\ events' = r.ev
             /\ result' = [op |-> "backup_login_item", ok |-> r.ok, raised |-> FALSE,
                           nBefore |-> Cardinality(loginBackups),
                           preserved |-> loginBackups \subseteq r.store,
                           ts |-> clock, prev |-> PrevTag]
    /\ UNCHANGED <<storeVars, hostEnv>>
    /\ UNCHANGED <<clock, agentVars, loginItems, portVars, profiles>>

\* remove_login_item that looks for an earlier backup and skips the delete
\* command when the store held none
remove_login_item_NeedsPrior(name, ts, sys, store, fail) ==
    LET items == get_login_items(sys)
        found == {i \in 1..Len(items) : items[i].name = name}
    IN  IF found = {}
        THEN [ok |-> FALSE, found |-> FALSE, sys |-> sys, store |-> store, ev |-> <<>>]
        ELSE IF fail = "mkdir"
        THEN [ok |-> FALSE, found |-> TRUE, sys |-> sys, store |-> store,
              ev |-> <<"mkdir_failed">>]
        ELSE IF fail = "write"
        THEN [ok |-> FALSE, found |-> TRUE, sys |-> sys, store |-> store,
              ev |-> <<"mkdir", "write_failed">>]
        ELSE LET item == items[CHOOSE i \in found : \A j \in found : i <= j]
                 st   == WriteRecord(store, ts, item)
             IN  IF store = {}
                 THEN [ok |-> FALSE, found |-> TRUE, sys |-> sys, store |-> st,
                       ev |-> <<"mkdir", "backup_write">>]
                 ELSE IF fail = "cmd" \/ ~HasLoginItem(sys, name)
                 THEN [ok |-> FALSE, found |-> TRUE, sys |-> sys, store |-> st,
                       ev |-> <<"mkdir", "backup_write", "login_delete">>]
                 ELSE [ok |-> TRUE, found |-> TRUE, sys |-> DeleteFirst(sys, name), store |-> st,
                       ev |-> <<"mkdir", "backup_write", "login_delete">>]

\* remove_login_item, src/audit/login_items.py 79-109
remove_login_item(name, ts, sys, store, fail) ==
    LET items == get_login_items(sys)
        found == {i \in 1..Len(items) : items[i].name = name}
    IN  IF found = {}
        THEN [ok |-> FALSE, found |-> FALSE, sys |-> sys, store |-> store, ev |-> <<>>]
        ELSE IF fail = "mkdir"
        THEN [ok |-> FALSE, found |-> TRUE, sys |-> sys, store |-> store,
              ev |-> <<"mkdir_failed">>]
        ELSE IF fail = "write"
        THEN [ok |-> FALSE, found |-> TRUE, sys |-> sys, store |-> store,
              ev |-> <<"mkdir", "write_failed">>]
        ELSE LET item == items[CHOOSE i \in found : \A j \in found : i <= j]
                 st   == WriteRecord(store, ts, item)
             IN  IF fail = "cmd" \/ ~HasLoginItem(sys, name)
                 THEN [ok |-> FALSE, found |-> TRUE, sys |-> sys, store |-> st,
                       ev |-> <<"mkdir", "backup_write", "login_delete">>]
                 ELSE [ok |-> TRUE, found |-> TRUE, sys |-> DeleteFirst(sys, name), store |-> st,
                       ev |-> <<"mkdir", "backup_write", "login_delete">>]

LoginNameInputs == {"Dropbox", "helper", "Acme", "Acme, Inc", "ghost"}

\* manage_login_items action "2" (a listed item, after the y/n prompt) and
\* the command remove_login_item_cmd(name) (any name, no prompt)
RemoveLoginItem ==
    /\ \E name \in LoginNameInputs :
       \E confirm \in ConfirmInputs :
         IF ~Confirms(confirm)
         THEN /\ \E i \in 1..Len(get_login_items(loginItems)) :
                    get_login_items(loginItems)[i].name = name
              /\ UNCHANGED <<loginItems, loginBackups, qdirExists>>
              /\ events' = <<>>
              /\ result' = [op |-> "remove_login_item", confirmed |-> FALSE, ok |-> FALSE,
                            found |-> TRUE,
                            raised |-> FALSE, name |-> name,
                            nBefore |-> Cardinality(loginBackups), preserved |-> TRUE,
                            ts |-> clock, prev |-> PrevTag]
         ELSE \E fail \in {"none", "mkdir", "write", "cmd"} :
              LET r == remove_login_item(name, clock, loginItems, loginBackups,
                                         fail)
              IN  /\ loginItems' = r.sys
                  /\ loginBackups' = r.store
                  /\ qdirExists' = (qdirExists \/ ("mkdir" \in Range(r.ev)))
                  /\ events' = r.ev
                  /\ result' = [op |-> "remove_login_item", confirmed |-> TRUE, ok |-> r.ok,
                                found |-> r.found,
                                raised |-> FALSE, name |-> name,
                                nBefore |-> Cardinality(loginBackups),
                                preserved |-> loginBackups \subseteq r.store,
                                ts |-> clock, prev |-> PrevTag]
    /\ UNCHANGED <<storeVars, hostEnv>>
    /\ UNCHANGED <<clock, agentVars, portVars, profiles>>

\* `make new login item at end with properties {path:"<path>"}': System
\* Events names the new item after the file at the path
SystemItemFor(path) ==
    IF \E s \in LoginItemSpace : s.path = path
    THEN CHOOSE s \in LoginItemSpace : s.path = path
    ELSE [name |-> path, path |-> path]

\* restore_login_item, src/audit/login_items.py 111-127.  The record is read
\* and its path is handed to System Events as it is (None is formatted as
\* "None"); the function itself never looks at the file system, the verdict
\* is the exit status of osascript.
restore_login_item(rec, sys, fail) ==
    IF fail = "read" THEN [ok |-> FALSE, sys |-> sys, ev |-> <<"read_failed">>]
    ELSE IF fail = "cmd" THEN [ok |-> FALSE, sys |-> sys, ev |-> <<"read", "login_add_failed">>]
    ELSE [ok |-> TRUE, sys |-> sys \o <<SystemItemFor(rec.path)>>, ev |-> <<"read", "login_add">>]

\* the name the operation just before this one removed from the login items
RemovedJustBefore ==
    IF result.op = "remove_login_item" /\ result.ok THEN result.name ELSE ""

\* manage_login_items action "3", lines 897-916: the record is read, the
\* prompt is answered, restore_login_item is called
RestoreLoginItem ==
    /\ Len(loginItems) < MaxLoginItems
    /\ \E b \in loginBackups, confirm \in ConfirmInputs :
         IF ~Confirms(confirm)
         THEN /\ UNCHANGED loginItems
              /\ events' = <<>>
              /\ result' = [op |-> "restore_login_item", confirmed |-> FALSE, ok |-> FALSE,
                            raised |-> FALSE, added |-> FALSE, rec |-> b.data,
                            after |-> RemovedJustBefore,
                            pathMissing |-> (b.data.path = NoPath
                                             \/ b.data.path \in hostEnv.missing),
                            prev |-> PrevTag]
         ELSE \E fail \in {"none", "read", "cmd"} :
              LET r == restore_login_item(b.data, loginItems, fail)
              IN  /\ loginItems' = r.sys
                  /\ events' = r.ev
                  /\ result' = [op |-> "restore_login_item", confirmed |-> TRUE, ok |-> r.ok,
                                raised |-> FALSE, added |-> (r.sys # loginItems),
                                rec |-> b.data, after |-> RemovedJustBefore,
                                pathMissing |-> (b.data.path = NoPath
                                                 \/ b.data.path \in hostEnv.missing),
                                prev |-> PrevTag]
    /\ UNCHANGED <<storeVars, hostEnv>>
    /\ UNCHANGED <<clock, qdirExists, agentVars, loginBackups, portVars, profiles>>

\* the same with backup.unlink() moved in front of the `if confirm' test
delete_backup_BeforePrompt(store, b, confirm, unlinkFails) ==
    IF ~unlinkFails THEN store \ {b} ELSE store

\* `if confirm.lower() == "y": backup.unlink()', src/main.py 928-929 and
\* 1057-1058
delete_backup(store, b, confirm, unlinkFails) ==
    IF Confirms(confirm) /\ ~unlinkFails THEN store \ {b} ELSE store

\* manage_login_items action "4", lines 918-934: the unlink is inside a
\* try/except that prints the error
DeleteLoginBackup ==
    /\ \E b \in loginBackups, confirm \in ConfirmInputs, unlinkFails \in BOOLEAN :
         /\ loginBackups' = delete_backup(loginBackups, b, confirm, unlinkFails)
         /\ events' = (IF ~Confirms(confirm) THEN <<>>
                       ELSE IF unlinkFails THEN <<"unlink_failed">> ELSE <<"unlink">>)
         /\ result' = [op |-> "delete_login_backup", confirmed |-> Confirms(confirm),
                       ok |-> (Confirms(confirm) /\ ~unlinkFails), raised |-> FALSE,
                       prev |-> PrevTag]
    /\ UNCHANGED <<storeVars, hostEnv>>
    /\ UNCHANGED <<clock, qdirExists, agentVars, loginItems, portVars, profiles>>

\* the host: the file a login item or a backup record points at is deleted
PathVanishes ==
    /\ \E p \in {rec.data.path : rec \in loginBackups} \ (hostEnv.missing \cup {NoPath}) :
         hostEnv' = [hostEnv EXCEPT !.missing = @ \cup {p}]
    /\ UNCHANGED <<storeVars, clock, qdirExists, agentVars, loginVars, portVars, profiles,
                   events, result>>

----------------------------------------------------------------------------
(* Ports  (src/audit/network_listeners.py, src/main.py 950-1068)             *)

\* the sockets lsof can report in this model; listening = the line says LISTEN
SocketSpace ==
    { [process |-> "Python",   pid |-> 100, port |-> "8000", listening |-> TRUE],
      [process |-> "node",     pid |-> 200, port |-> "8080", listening |-> TRUE],
      [process |-> "postgres", pid |-> 300, port |-> "5432", listening |-> TRUE],
      [process |-> "curl",     pid |-> 400, port |-> "8080", listening |-> FALSE] }

PortInputs == {"8000", "8080", "5432", "9999"}

\* check_network_listeners, lines 65-91: the LISTEN lines, with the NAME
\* column ("*:8080") kept as its colon-separated parts
check_network_listeners(socks) ==
    {[process |-> s.process, port |-> <<"*", s.port>>, pid |-> s.pid] :
        s \in {x \in socks : x.listening}}

\* item['port'].split(':')[-1]
PortNumber(field) == field[Len(field)]

\* backup_port_state without the `if not listeners: return' before the write
backup_port_state_WritingEmpty(socks, ts, store, fail) ==
    LET listeners == check_network_listeners(socks)
    IN  IF fail = "mkdir" THEN [ok |-> FALSE, store |-> store, ev |-> <<"mkdir_failed">>]
        ELSE IF fail = "write" THEN [ok |-> FALSE, store |-> store, ev |-> <<"mkdir", "write_failed">>]
        ELSE [ok |-> TRUE, store |-> WriteRecord(store, ts, listeners),
              ev |-> <<"mkdir", "backup_write">>]

\* backup_port_state, lines 43-63.  get_quarantine_dir() returns None when
\* the mkdir fails, and None / str raises into the except branch.
backup_port_state(socks, ts, store, fail) ==
    LET listeners == check_network_listeners(socks)
    IN  IF listeners = {} THEN [ok |-> FALSE, store |-> store, ev |-> <<>>]
        ELSE IF fail = "mkdir" THEN [ok |-> FALSE, store |-> store, ev |-> <<"mkdir_failed">>]
        ELSE IF fail = "write" THEN [ok |-> FALSE, store |-> store, ev |-> <<"mkdir", "write_failed">>]
        ELSE [ok |-> TRUE, store |-> WriteRecord(store, ts, listeners),
              ev |-> <<"mkdir", "backup_write">>]

\* manage_ports action "1" and the command backup_ports
BackupPortState ==
    /\ \E fail \in {"none", "mkdir", "write"} :
         LET r == backup_port_state(sockets, clock, portBackups, fail)
         IN  /\ portBackups' = r.store
             /\ qdirExists' = (qdirExists \/ ("mkdir" \in Range(r.ev)))
             /\ events' = r.ev
             /\ result' = [op |-> "backup_port_state", ok |-> r.ok, raised |-> FALSE,
                           nBefore |-> Cardinality(portBackups),
                           preserved |-> portBackups \subseteq r.store,
                           ts |-> clock, prev |-> PrevTag]
    /\ UNCHANGED <<storeVars, hostEnv>>
    /\ UNCHANGED <<clock, agentVars, loginVars, sockets, profiles>>

\* `kill <pid>': SIGTERM; every socket of a process that exits is closed
Kill(socks, pid, dies) == IF dies THEN {s \in socks : s.pid # pid} ELSE socks

\* close_port_process without the `if not success: return' after the backup
close_port_process_IgnoringBackup(port, first, socks, ts, store, fail, dies) ==
    LET b == backup_port_state(socks, ts, store, fail)
    IN  [ok |-> TRUE, socks |-> Kill(socks, first.pid, dies), store |-> b.store,
         pid |-> first.pid, ev |-> <<"lookup">> \o b.ev \o <<"kill">>]

\* close_port_process, lines 93-119.  `first' is the socket on the second
\* line of `lsof -i :<port>', which lists every socket using the port.
close_port_process(port, first, socks, ts, store, fail, dies) ==
    LET b == backup_port_state(socks, ts, store, fail)
    IN  IF ~b.ok
        THEN [ok |-> FALSE, socks |-> socks, store |-> b.store, pid |-> first.pid,
              ev |-> <<"lookup">> \o b.ev]
        ELSE [ok |-> TRUE, socks |-> Kill(socks, first.pid, dies), store |-> b.store,
              pid |-> first.pid, ev |-> <<"lookup">> \o b.ev \o <<"kill">>]

\* manage_ports action "4", lines 1050-1062: the unlink is not guarded, a
\* failure raises out of the menu
DeletePortBackup ==
    /\ \E b \in portBackups, confirm \in ConfirmInputs, unlinkFails \in BOOLEAN :
         /\ portBackups' = delete_backup(portBackups, b, confirm, unlinkFails)
         /\ events' = (IF ~Confirms(confirm) THEN <<>>
                       ELSE IF unlinkFails THEN <<"unlink_raised">> ELSE <<"unlink">>)
         /\ result' = [op |-> "delete_port_backup", confirmed |-> Confirms(confirm),
                       ok |-> (Confirms(confirm) /\ ~unlinkFails),
                       raised |-> (Confirms(confirm) /\ unlinkFails), prev |-> PrevTag]
    /\ UNCHANGED <<storeVars, hostEnv>>
    /\ UNCHANGED <<clock, qdirExists, agentVars, loginVars, sockets, profiles>>

\* manage_ports action "2" (a listed port, after the y/n prompt) and the
\* command close_port(port) (any port, no prompt)
ClosePort ==
    /\ \E port \in PortInputs :
       \E confirm \in ConfirmInputs :
         IF ~Confirms(confirm)
         THEN /\ \E l \in check_network_listeners(sockets) : PortNumber(l.port) = port
              /\ UNCHANGED <<sockets, portBackups, qdirExists>>
              /\ events' = <<>>
              /\ result' = [op |-> "close_port", confirmed |-> FALSE, ok |-> FALSE,
                            raised |-> FALSE, port |-> port,
                            nBefore |-> Cardinality(portBackups), preserved |-> TRUE,
                            ts |-> clock, prev |-> PrevTag]
         ELSE IF {s \in sockets : s.port = port} = {}
         THEN /\ UNCHANGED <<sockets, portBackups, qdirExists>>
              /\ events' = <<"lookup">>
              /\ result' = [op |-> "close_port", confirmed |-> TRUE, ok |-> FALSE,
                            raised |-> FALSE, port |-> port,
                            nBefore |-> Cardinality(portBackups), preserved |-> TRUE,
                            ts |-> clock, prev |-> PrevTag]
         ELSE \E first \in {s \in sockets : s.port = port} :
              \E fail \in {"none", "mkdir", "write"}, dies \in BOOLEAN :
              LET r == close_port_process(port, first, sockets, clock, portBackups,
                                          fail, dies)
              IN  /\ sockets' = r.socks
                  /\ portBackups' = r.store
                  /\ qdirExists' = (qdirExists \/ ("mkdir" \in Range(r.ev)))
                  /\ events' = r.ev
                  /\ result' = [op |-> "close_port", confirmed |-> TRUE, ok |-> r.ok,
                                raised |-> FALSE, port |-> port, target |-> first,
                                nBefore |-> Cardinality(portBackups),
                                preserved |-> portBackups \subseteq r.store,
                                ts |-> clock, prev |-> PrevTag]
    /\ UNCHANGED <<storeVars, hostEnv>>
    /\ UNCHANGED <<clock, agentVars, loginVars, profiles>>

\* restore_port_state, lines 121-188

\* a backup entry that lacks the 'process' key
MalformedEntry == [process |-> "?", port |-> <<>>, pid |-> 0]

\* str.lower() on the process names of the model
Lower(p) == IF p = "Python" THEN "python" ELSE p

\* RestoreEntry whose `which' branch forgets to count a missing binary
RestoreEntry_DroppingNotFound(item, onPath, popenFails) ==
    IF Lower(item.process) = "python"
    THEN (IF "python3" \in popenFails THEN "restart_failed" ELSE "restarted")
    ELSE IF Lower(item.process) = "node"
    THEN "skipped"
    ELSE IF item.process \notin onPath THEN "skipped"
    ELSE IF item.process \in popenFails THEN "restart_failed"
    ELSE "restarted"

\* the body of `for item in backup' for a well-formed entry: what happens to it
RestoreEntry(item, onPath, popenFails) ==
    IF Lower(item.process) = "python"
    THEN (IF "python3" \in popenFails THEN "restart_failed" ELSE "restarted")
    ELSE IF Lower(item.process) = "node"
    THEN "skipped"
    ELSE IF item.process \notin onPath THEN "not_found"
    ELSE IF item.process \in popenFails THEN "restart_failed"
    ELSE "restarted"

CountOf(outcomes, kinds) == Cardinality({i \in 1..Len(outcomes) : outcomes[i] \in kinds})

\* lines 182-185: the verdict over the counters
RestoreVerdict(fail_count, n) == fail_count # n

restore_port_state(readable, backup, onPath, popenFails) ==
    IF ~readable \/ \E i \in 1..Len(backup) : backup[i] = MalformedEntry
    THEN [ok |-> FALSE, counted |-> FALSE, success_count |-> 0, fail_count |-> 0,
          outcomes |-> <<>>]
    ELSE LET outcomes == [i \in 1..Len(backup) |-> RestoreEntry(backup[i], onPath, popenFails)]
             success  == CountOf(outcomes, {"restarted"})
             fail     == CountOf(outcomes, {"not_found", "restart_failed"})
         IN  [ok |-> RestoreVerdict(fail, Len(backup)), counted |-> TRUE,
              success_count |-> success, fail_count |-> fail, outcomes |-> outcomes]

BackupEntrySpace == check_network_listeners(SocketSpace) \cup {MalformedEntry}

\* the command restore_ports(backup_file): any file may be named.  Popen
\* returns at once; what a relaunched program opens later is not an effect of
\* this call.
RestorePortState ==
    /\ \E readable \in BOOLEAN :
       \E backup \in (IF readable THEN SeqsUpTo(BackupEntrySpace, MaxBackupLen) ELSE {<<>>}) :
       \E onPath \in SUBSET {"postgres"}, popenFails \in SUBSET {"python3", "postgres"} :
         LET r == restore_port_state(readable, backup, onPath, popenFails)
         IN  /\ events' = r.outcomes
             /\ result' = [op |-> "restore_port_state", ok |-> r.ok, raised |-> FALSE,
                           counted |-> r.counted, backup |-> backup,
                           success_count |-> r.success_count, fail_count |-> r.fail_count,
                           outcomes |-> r.outcomes, prev |-> PrevTag]
    /\ UNCHANGED <<storeVars, hostEnv>>
    /\ UNCHANGED <<clock, qdirExists, agentVars, loginVars, portVars, profiles>>

----
(* Profiles  (src/audit/profiles.py 75-92, src/main.py 617-722)              *)

ProfileSpace ==
    { [id |-> "com.corp.mdm",   mdm |-> TRUE,  removable |-> TRUE],
      [id |-> "com.vpn.free",   mdm |-> FALSE, removable |-> TRUE],
      [id |-> "com.locked.cfg", mdm |-> FALSE, removable |-> FALSE] }

\* p.get('profileIdentifier') of a profile block that has no such line
NoIdentifier == "None"

\* profile blocks that parse_profiles keeps although they carry no usable
\* identifier: the key is missing, or its value is the empty string
UnidentifiedProfiles ==
    { [id |-> NoIdentifier, mdm |-> FALSE, removable |-> TRUE],
      [id |-> "",           mdm |-> FALSE, removable |-> TRUE] }

\* a file that does not exist
NoFile == "absent"

\* the outputs of `profiles status -type enrollment'
MdmStatuses == {"MDM enrollment: No", "MDM enrollment: Yes"}

\* get_mdm_info, profiles.py 86-92
get_mdm_info == hostEnv.mdm

NoWatchlist == [exists |-> FALSE, ids |-> <<>>]

\* remove_profile: `sudo profiles remove -identifier <id>' and its exit code;
\* subprocess.run raises on a None argument and the except branch returns False
remove_profile(profs, identifier, cmdFails) ==
    IF identifier = NoIdentifier
    THEN [ok |-> FALSE, profs |-> profs, ev |-> <<"run_raised">>]
    ELSE IF cmdFails \/ ~\E p \in profs : p.id = identifier
    THEN [ok |-> FALSE, profs |-> profs, ev |-> <<"profile_remove">>]
    ELSE [ok |-> TRUE, profs |-> {p \in profs : p.id # identifier}, ev |-> <<"profile_remove">>]

\* mdm_state_check that rewrites the file on every visit
mdm_state_check_AlwaysWriting(rootExists, state, current_mdm) ==
    IF state = NoFile /\ ~rootExists
    THEN [raised |-> TRUE, state |-> state, alert |-> FALSE, written |-> FALSE]
    ELSE [raised |-> FALSE, state |-> current_mdm,
          alert |-> (state # NoFile /\ state # current_mdm), written |-> TRUE]

\* profile_mdm_menu, lines 619-635: mdm_state.json is read when it exists and
\* written when it is missing or differs.  open(..., "w") raises
\* FileNotFoundError when QUARANTINE_DIR does not exist; nothing catches it.
mdm_state_check(rootExists, state, current_mdm) ==
    IF state = NoFile /\ ~rootExists
    THEN [raised |-> TRUE, state |-> state, alert |-> FALSE, written |-> FALSE]
    ELSE IF state = NoFile
    THEN [raised |-> FALSE, state |-> current_mdm, alert |-> FALSE, written |-> TRUE]
    ELSE IF state # current_mdm
    THEN [raised |-> FALSE, state |-> current_mdm, alert |-> TRUE, written |-> TRUE]
    ELSE [raised |-> FALSE, state |-> state, alert |-> FALSE, written |-> FALSE]

\* outcome of a visit of the menu that ended in the uncaught exception
MenuRaised ==
    [op |-> "profile_menu", confirmed |-> FALSE, ok |-> FALSE, raised |-> TRUE,
     id |-> NoIdentifier, locked |-> FALSE, prev |-> PrevTag]

\* the host is enrolled or released between two runs of the tool
EnrollmentChanges ==
    /\ \E status \in MdmStatuses \ {hostEnv.mdm} :
         hostEnv' = [hostEnv EXCEPT !.mdm = status]
    /\ UNCHANGED <<clock, qdirExists, agentVars, loginVars, portVars, profiles,
                   storeVars, events, result>>

\* the host: a profile the tool removed and put on its watchlist is installed
\* again (the case the watchlist is kept for)
ProfileReappears ==
    /\ \E p \in (ProfileSpace \cup UnidentifiedProfiles) \ profiles :
         /\ p.id \in Range(watchlist.ids)
         /\ profiles' = profiles \cup {p}
    /\ events' = <<>>
    /\ result' = [op |-> "host", confirmed |-> FALSE, raised |-> FALSE, prev |-> PrevTag]
    /\ UNCHANGED <<clock, qdirExists, agentVars, loginVars, portVars, storeVars, hostEnv>>

\* profile_mdm_menu left with "q", "s" or because no profile is installed
ViewProfiles ==
    /\   LET m == mdm_state_check(qdirExists, mdmState, get_mdm_info)
         IN  /\ mdmState' = m.state
             /\ events' = (IF m.raised THEN <<"open_failed">> ELSE <<>>)
             /\ result' = (IF m.raised THEN MenuRaised
                           ELSE [op |-> "profile_menu", confirmed |-> FALSE, ok |-> TRUE,
                                 raised |-> FALSE, id |-> NoIdentifier, locked |-> FALSE,
                                 alert |-> m.alert, written |-> m.written, prev |-> PrevTag])
    /\ UNCHANGED <<logFile, snapshots, watchlist, hostEnv, profiles>>
    /\ UNCHANGED <<clock, qdirExists, agentVars, loginVars, portVars>>

\* line 669: the manual path returns before the prompt for a locked profile
ManualRejects(p) == ~p.removable

\* profile_mdm_menu, action "r"
RemoveProfile ==
    /\   LET m == mdm_state_check(qdirExists, mdmState, get_mdm_info)
         IN  IF m.raised
             THEN /\ UNCHANGED <<profiles, mdmState>>
                  /\ events' = <<"open_failed">>
                  /\ result' = MenuRaised
             ELSE /\ mdmState' = m.state
                  /\ \E p \in profiles :
                       IF ManualRejects(p)
                       THEN /\ UNCHANGED profiles
                            /\ events' = <<>>
                            /\ result' = [op |-> "remove_profile", confirmed |-> FALSE,
                                          ok |-> FALSE, raised |-> FALSE, id |-> p.id,
                                          locked |-> ~p.removable,
                                          alert |-> m.alert, written |-> m.written, prev |-> PrevTag]
                       ELSE \E confirm \in ConfirmInputs :
                            IF ~Confirms(confirm)
                            THEN /\ UNCHANGED profiles
                                 /\ events' = <<>>
                                 /\ result' = [op |-> "remove_profile", confirmed |-> FALSE,
                                               ok |-> FALSE, raised |-> FALSE, id |-> p.id,
                                               locked |-> ~p.removable,
                                               alert |-> m.alert, written |-> m.written, prev |-> PrevTag]
                            ELSE \E cmdFails \in BOOLEAN :
                                 LET r == remove_profile(profiles, p.id, cmdFails)
                                 IN  /\ profiles' = r.profs
                                     /\ events' = r.ev
                                     /\ result' = [op |-> "remove_profile", confirmed |-> TRUE,
                                                   ok |-> r.ok, raised |-> FALSE, id |-> p.id,
                                                   locked |-> ~p.removable,
                                                   alert |-> m.alert, written |-> m.written, prev |-> PrevTag]
    /\ UNCHANGED <<logFile, snapshots, watchlist, hostEnv>>
    /\ UNCHANGED <<clock, qdirExists, agentVars, loginVars, portVars>>

\* the monitor path without the test of `removable'
MayAutoRemove_IgnoringLock(p) == ~p.mdm

\* line 691: `if mdm or not removable' prints the refusal
MayAutoRemove(p) == ~(p.mdm \/ ~p.removable)

\* the same without the test `if identifier not in watchlist'
update_watchlist_AlwaysAppending(wl, identifier, wlFails) ==
    IF wlFails THEN wl
    ELSE [exists |-> TRUE, ids |-> Append(wl.ids, identifier)]

\* lines 699-713: the identifier is appended to the watchlist file unless it
\* is there; a failure of the read or the write is printed
update_watchlist(wl, identifier, wlFails) ==
    IF wlFails \/ identifier \in Range(wl.ids) THEN wl
    ELSE [exists |-> TRUE, ids |-> Append(wl.ids, identifier)]

\* profile_mdm_menu, action "m": no prompt, the profile is removed at once
AutoRemoveProfile ==
    /\   LET m == mdm_state_check(qdirExists, mdmState, get_mdm_info)
         IN  IF m.raised
             THEN /\ UNCHANGED <<profiles, mdmState, watchlist>>
                  /\ events' = <<"open_failed">>
                  /\ result' = MenuRaised
             ELSE /\ mdmState' = m.state
                  /\ \E p \in profiles :
                       IF ~MayAutoRemove(p)
                       THEN /\ UNCHANGED <<profiles, watchlist>>
                            /\ events' = <<>>
                            /\ result' = [op |-> "auto_remove", confirmed |-> FALSE,
                                          ok |-> FALSE, raised |-> FALSE, id |-> p.id,
                                          locked |-> ~p.removable,
                                          alert |-> m.alert, written |-> m.written, prev |-> PrevTag]
                       ELSE \E cmdFails \in BOOLEAN, wlFails \in BOOLEAN :
                            LET r == remove_profile(profiles, p.id, cmdFails)
                            IN  /\ profiles' = r.profs
                                /\ watchlist' = (IF r.ok
                                                 THEN update_watchlist(watchlist, p.id, wlFails)
                                                 ELSE watchlist)
                                /\ events' = r.ev
                                /\ result' = [op |-> "auto_remove", confirmed |-> TRUE,
                                              ok |-> r.ok, raised |-> FALSE, id |-> p.id,
                                              known |-> p.id \in Range(watchlist.ids),
                                              locked |-> ~p.removable,
                                              alert |-> m.alert, written |-> m.written, prev |-> PrevTag]
    /\ UNCHANGED <<logFile, snapshots, hostEnv>>
    /\ UNCHANGED <<clock, qdirExists, agentVars, loginVars, portVars>>

----------------------------------------------------------------------------
(* Forensics: snapshots and the timeline log  (src/main.py 725-820)          *)

MaxLogLines == 4   \* lines the timeline log may hold before writers stop

NoLog == [exists |-> FALSE, lines |-> <<>>]

\* open(LOG_FILE, "a") followed by one write of `lines', replacing the
\* content instead of extending it
AppendLog_Truncating(log, lines) == [exists |-> TRUE, lines |-> lines]

\* open(LOG_FILE, "a") followed by one write of `lines'
AppendLog(log, lines) == [exists |-> TRUE, lines |-> log.lines \o lines]

\* forensics_menu, action "1".  SNAPSHOT_DIR.mkdir(exist_ok=True) has no
\* parents=True and raises when QUARANTINE_DIR is missing; the two writes
\* are not guarded either.  The file name carries the second, open(.., "w")
\* replaces a file of the same second.
ExportSnapshot ==
    /\ Len(logFile.lines) < MaxLogLines
    /\ \E fail \in {"none", "write", "log"} :
         IF ~qdirExists
         THEN /\ UNCHANGED <<snapshots, logFile>>
              /\ events' = <<"mkdir_failed">>
              /\ result' = [op |-> "export", ok |-> FALSE, raised |-> TRUE,
                            rootBefore |-> qdirExists, ts |-> clock, prev |-> PrevTag]
         ELSE IF fail = "write"
         THEN /\ UNCHANGED <<snapshots, logFile>>
              /\ events' = <<"mkdir", "write_failed">>
              /\ result' = [op |-> "export", ok |-> FALSE, raised |-> TRUE,
                            rootBefore |-> qdirExists, ts |-> clock, prev |-> PrevTag]
         ELSE /\ snapshots' = WriteRecord(snapshots, clock,
                                          [profiles |-> profiles, mdm |-> get_mdm_info])
              /\ logFile' = (IF fail = "log" THEN logFile
                             ELSE AppendLog(logFile, <<"exported">>))
              /\ events' = (IF fail = "log" THEN <<"mkdir", "snapshot_write", "log_failed">>
                            ELSE <<"mkdir", "snapshot_write", "log_append">>)
              /\ result' = [op |-> "export", ok |-> fail # "log", raised |-> fail = "log",
                            rootBefore |-> qdirExists, ts |-> clock, prev |-> PrevTag]
    /\ UNCHANGED <<mdmState, watchlist, hostEnv, profiles>>
    /\ UNCHANGED <<clock, qdirExists, agentVars, loginVars, portVars>>

\* the comprehension of lines 764-765 with its filter dropped only for None
profile_ids_KeepingEmpty(snap) == {p.id : p \in snap.profiles} \ {NoIdentifier}

\* lines 764-765: {p.get('profileIdentifier') for p in ... if p.get('profileIdentifier')}
profile_ids(snap) == {p.id : p \in snap.profiles} \ {NoIdentifier, ""}

\* lines 766-767
snapshot_diff(snap1, snap2) ==
    [added   |-> profile_ids(snap2) \ profile_ids(snap1),
     removed |-> profile_ids(snap1) \ profile_ids(snap2)]

\* lines 768-784: the entry written for one comparison
compare_entry(d) ==
    <<"compared">>
    \o (IF d.added # {} THEN <<"added">> ELSE <<>>)
    \o (IF d.removed # {} THEN <<"removed">> ELSE <<>>)
    \o (IF d.added = {} /\ d.removed = {} THEN <<"nochange">> ELSE <<>>)

\* sorted(SNAPSHOT_DIR.glob("snapshot_*.json")): the files in name order
RECURSIVE SortedSnapshots(_)
SortedSnapshots(S) ==
    IF S = {} THEN <<>>
    ELSE LET first == CHOOSE r \in S : \A q \in S : r.ts <= q.ts
         IN  <<first>> \o SortedSnapshots(S \ {first})

NoSnapshot == [profiles |-> {}, mdm |-> NoFile]

\* forensics_menu, action "2".  Fewer than two snapshots: a message and
\* `continue'.  A number out of range, an unreadable file or a failing log
\* write raise inside the try and are printed by the except branch.
CompareSnapshots ==
    /\ LET files == SortedSnapshots(snapshots)
       IN  IF Len(files) < 2
           THEN /\ UNCHANGED logFile
                /\ events' = <<>>
                /\ result' = [op |-> "compare", outcome |-> "too_few", raised |-> FALSE,
                              snap1 |-> NoSnapshot, snap2 |-> NoSnapshot,
                              added |-> {}, removed |-> {},
                              linesBefore |-> Len(logFile.lines), prev |-> PrevTag]
           ELSE \E idx1 \in 0..(Len(files) + 1), idx2 \in 0..(Len(files) + 1) :
                \E fail \in {"none", "read", "log"} :
                  IF \/ idx1 \notin 1..Len(files)
                     \/ idx2 \notin 1..Len(files)
                     \/ fail # "none"
                  THEN /\ UNCHANGED logFile
                       /\ events' = <<"compare_failed">>
                       /\ result' = [op |-> "compare", outcome |-> "failed", raised |-> FALSE,
                                     snap1 |-> NoSnapshot, snap2 |-> NoSnapshot,
                                     added |-> {}, removed |-> {},
                                     linesBefore |-> Len(logFile.lines), prev |-> PrevTag]
                  ELSE LET d == snapshot_diff(files[idx1].data, files[idx2].data)
                       IN  /\ Len(logFile.lines) + Len(compare_entry(d)) <= MaxLogLines
                           /\ logFile' = AppendLog(logFile, compare_entry(d))
                           /\ events' = <<"log_append">>
                           /\ result' = [op |-> "compare", outcome |-> "done",
                                         raised |-> FALSE,
                                         snap1 |-> files[idx1].data, snap2 |-> files[idx2].data,
                                         added |-> d.added, removed |-> d.removed,
                                         linesBefore |-> Len(logFile.lines), prev |-> PrevTag]
    /\ UNCHANGED <<snapshots, mdmState, watchlist, hostEnv, profiles>>
    /\ UNCHANGED <<clock, qdirExists, agentVars, loginVars, portVars>>

\* forensics_menu, action "4": offered only while LOG_FILE exists
ClearLog ==
    /\ logFile.exists
    /\ \E confirm \in ConfirmInputs, unlinkFails \in BOOLEAN :
         /\ logFile' = (IF Confirms(confirm) /\ ~unlinkFails THEN NoLog ELSE logFile)
         /\ events' = (IF ~Confirms(confirm) THEN <<>>
                       ELSE IF unlinkFails THEN <<"unlink_raised">> ELSE <<"log_cleared">>)
         /\ result' = [op |-> "clear_log", confirmed |-> Confirms(confirm),
                       raised |-> (Confirms(confirm) /\ unlinkFails), prev |-> PrevTag]
    /\ UNCHANGED <<snapshots, mdmState, watchlist, hostEnv, profiles>>
    /\ UNCHANGED <<clock, qdirExists, agentVars, loginVars, portVars>>

\* forensics_menu, action "5": offered only while a snapshot exists.  The
\* unlink loop is not guarded: a failure leaves the files not yet reached.
ClearSnapshots ==
    /\ snapshots # {}
    /\ \E confirm \in ConfirmInputs :
         IF ~Confirms(confirm)
         THEN /\ UNCHANGED snapshots
              /\ events' = <<>>
              /\ result' = [op |-> "clear_snapshots", confirmed |-> FALSE,
                            raised |-> FALSE, prev |-> PrevTag]
         ELSE \E left \in SUBSET snapshots :
              /\ snapshots' = left
              /\ events' = (IF left = {} THEN <<"snapshots_cleared">> ELSE <<"unlink_raised">>)
              /\ result' = [op |-> "clear_snapshots", confirmed |-> TRUE,
                            raised |-> left # {}, prev |-> PrevTag]
    /\ UNCHANGED <<logFile, mdmState, watchlist, hostEnv, profiles>>
    /\ UNCHANGED <<clock, qdirExists, agentVars, loginVars, portVars>>

\* uninstall -> cleanup_all_data (lines 941-948, 1070-1078): shutil.rmtree
\* of QUARANTINE_DIR inside try/except.  When rmtree stops at an error the
\* entries it had reached are gone and the root stays.
StoreCategories == {"backups", "agents", "login_items", "ports", "log", "snapshots", "state"}

\* the categories that hold something
PresentCategories ==
    {c \in StoreCategories :
        \/ c = "backups" /\ backupFolders # {}
        \/ c = "agents" /\ agentsCat # NoAgentsCat
        \/ c = "login_items" /\ loginBackups # {}
        \/ c = "ports" /\ portBackups # {}
        \/ c = "log" /\ logFile.exists
        \/ c = "snapshots" /\ snapshots # {}
        \/ c = "state" /\ (mdmState # NoFile \/ watchlist.exists)}

Uninstall ==
    /\ \E confirm \in ConfirmInputs :
         IF ~Confirms(confirm) \/ ~qdirExists
         THEN /\ UNCHANGED <<qdirExists, agentVars, loginBackups, portBackups, storeVars>>
              /\ events' = <<>>
              /\ result' = [op |-> "uninstall", confirmed |-> Confirms(confirm),
                            raised |-> FALSE, prev |-> PrevTag]
         ELSE \E gone \in SUBSET PresentCategories, rootGone \in BOOLEAN :
              /\ rootGone => gone = PresentCategories
              /\ qdirExists' = ~rootGone
              /\ backupFolders' = (IF "backups" \in gone THEN {} ELSE backupFolders)
              /\ quarantined' = (IF "backups" \in gone THEN {} ELSE quarantined)
              /\ agentsCat' = (IF "agents" \in gone THEN NoAgentsCat ELSE agentsCat)
              /\ loginBackups' = (IF "login_items" \in gone THEN {} ELSE loginBackups)
              /\ portBackups' = (IF "ports" \in gone THEN {} ELSE portBackups)
              /\ logFile' = (IF "log" \in gone THEN NoLog ELSE logFile)
              /\ snapshots' = (IF "snapshots" \in gone THEN {} ELSE snapshots)
              /\ mdmState' = (IF "state" \in gone THEN NoFile ELSE mdmState)
              /\ watchlist' = (IF "state" \in gone THEN NoWatchlist ELSE watchlist)
              /\ UNCHANGED agentFiles
              /\ events' = (IF rootGone THEN <<"rmtree">> ELSE <<"rmtree_failed">>)
              /\ result' = [op |-> "uninstall", confirmed |-> TRUE,
                            raised |-> FALSE, prev |-> PrevTag]
    /\ UNCHANGED <<clock, loginItems, sockets, profiles, hostEnv>>

----------------------------------------------------------------------------
(* Probes  (src/main.py 48-96, src/audit/*.py)                               *)

MaxFaults == 1   \* probes that meet a failure in one run

\* CHECKS, lines 48-72, by the function each entry calls
CHECKS ==
    << "check_mdm_and_dep", "check_remote_management", "check_launch_agents",
       "check_profiles", "check_usb", "check_network", "check_world_writable",
       "check_admin_users", "check_login_items", "check_network_listeners",
       "check_accessibility_apps", "check_tcc_permissions", "check_sip",
       "check_gatekeeper", "check_xprotect", "check_firewall+check_firewall_stealth",
       "check_bluetooth", "check_guest_account", "check_remote_apple_events",
       "check_screen_sharing", "check_automatic_updates", "check_filevault",
       "check_firmware_password" >>

ProbeNames == {CHECKS[i] : i \in 1..Len(CHECKS)}

FindingStatuses == {"OK", "ALERT", "ERROR", "SUGGESTION", "UNKNOWN"}

\* what can fail below a probe: the command it runs, the listing of a
\* directory, the stat of an entry
FaultKinds(probe) ==
    CASE probe = "check_launch_agents"  -> {"command", "listdir", "stat"}
      [] probe = "check_world_writable" -> {"listdir", "stat"}
      [] OTHER                          -> {"command"}

FaultSpace ==
    UNION {{[probe |-> pr, kind |-> k] : k \in FaultKinds(pr)} : pr \in ProbeNames}

\* sets of at most n faults, no probe named twice
RECURSIVE FaultSets(_)
FaultSets(n) ==
    IF n = 0 THEN {{}}
    ELSE FaultSets(n - 1) \cup
         {T \cup {f} : T \in FaultSets(n - 1),
                       f \in FaultSpace}

\* probes that find something to report on this host
AlertChoices == {"check_launch_agents", "check_gatekeeper"}

NoHostEnv == [faults |-> {}, alerts |-> {}, mdm |-> "MDM enrollment: No", missing |-> {},
              mode |-> 420, who |-> "root"]

\* the status a probe returns when nothing fails
CleanStatus(probe, env) == IF probe \in env.alerts THEN "ALERT" ELSE "OK"

\* one probe.  Most bodies sit in try/except and return status ERROR.
\* check_launch_agents (launch_agents.py 16-41) guards only codesign, inside
\* is_unsigned: os.listdir and os.stat raise.  check_world_writable
\* (permissions.py 12-31) guards os.stat only.  check_tcc_permissions
\* (tcc.py 26-36) turns a failed query into a result line, hence ALERT.
RunProbe(probe, env) ==
    LET kinds == {f.kind : f \in {g \in env.faults : g.probe = probe}}
    IN  IF kinds = {}
        THEN [raised |-> FALSE, statuses |-> <<CleanStatus(probe, env)>>]
        ELSE IF probe = "check_launch_agents"
        THEN (IF kinds = {"command"}
              THEN [raised |-> FALSE, statuses |-> <<CleanStatus(probe, env)>>]
              ELSE [raised |-> TRUE, statuses |-> <<>>])
        ELSE IF probe = "check_world_writable"
        THEN (IF kinds = {"stat"}
              THEN [raised |-> FALSE, statuses |-> <<CleanStatus(probe, env)>>]
              ELSE [raised |-> TRUE, statuses |-> <<>>])
        ELSE IF probe = "check_tcc_permissions"
        THEN [raised |-> FALSE, statuses |-> <<"ALERT">>]
        ELSE IF probe = "check_firewall+check_firewall_stealth"
        THEN [raised |-> FALSE, statuses |-> <<"ERROR", "ERROR">>]
        ELSE [raised |-> FALSE, statuses |-> <<"ERROR">>]

\* run_all_checks, lines 86-96: `result = func()' for every entry, in order;
\* an exception leaves the loop and the function
RECURSIVE run_all_checks(_, _, _)
run_all_checks(i, env, acc) ==
    IF i > Len(CHECKS) THEN [raised |-> FALSE, findings |-> acc]
    ELSE LET r == RunProbe(CHECKS[i], env)
         IN  IF r.raised THEN [raised |-> TRUE, findings |-> acc]
             ELSE run_all_checks(i + 1, env,
                                 acc \o [j \in 1..Len(r.statuses) |->
                                           [probe |-> CHECKS[i], status |-> r.statuses[j]]])

\* the command `check' and the menu entry that runs every probe
RunAllChecks ==
    /\ LET r == run_all_checks(1, hostEnv, <<>>)
       IN  /\ events' = <<>>
           /\ result' = [op |-> "run_all_checks", raised |-> r.raised,
                         findings |-> r.findings, prev |-> PrevTag]
    /\ UNCHANGED <<clock, qdirExists, agentVars, loginVars, portVars, profiles,
                   storeVars, hostEnv>>

----------------------------------------------------------------------------
(* Launch-agent detection  (src/audit/launch_agents.py, permissions.py)      *)

\* the file names of the model in which `any(k in lower_f for k in keywords)'
\* finds one of remote, mdm, backdoor, rat, suspicious, hack, keylog, spy
KeywordNames == {"com.remote.helper.plist"}

HasKeyword(name) == name \in KeywordNames

\* the files of the scanned directories: a signed file with a keyword, a
\* signed file without one, an unsigned file
DetectFileSpace ==
    { [dir |-> LaunchAgentsDir,     name |-> "com.remote.helper.plist"],
      [dir |-> LaunchAgentsDir,     name |-> "com.apple.ok.plist"],
      [dir |-> UserLaunchAgentsDir, name |-> "com.foo.plist"] }

\* the permission bits of a file mode
ModeBits == 9

Modes == 0..(2^ModeBits - 1)

UserClasses == {"root", "owner", "other"}

\* mode & mask for a mask with one bit set
BitSet(mode, mask) == (mode \div mask) % 2 = 1

\* os.access(path, os.W_OK): root may write any file, otherwise the
\* permission class of the caller decides
AccessW(mode, who) ==
    CASE who = "root"  -> TRUE
      [] who = "owner" -> BitSet(mode, 128)
      [] OTHER         -> BitSet(mode, 2)

\* oct(mode)[-1]
LastOctalDigit(mode) == mode % 8

\* is_world_writable, src/audit/launch_agents.py 4-6
is_world_writable(mode, who) ==
    AccessW(mode, who) /\ LastOctalDigit(mode) \in {2, 6, 7}

\* check_launch_agents, lines 16-41: the if / elif / elif chain over every
\* entry of the three directories
check_launch_agents(files, env) ==
    LET why(f) == IF HasKeyword(f.name) THEN "keyword"
                  ELSE IF is_world_writable(env.mode, env.who) THEN "world-writable"
                  ELSE IF is_unsigned(f) THEN "unsigned"
                  ELSE "clean"
    IN  {[file |-> f, why |-> why(f)] : f \in {g \in files : why(g) # "clean"}}

\* check_world_writable, src/audit/permissions.py 12-31, on the agent
\* directories: `mode & 0o002'
check_world_writable(files, env) == {f \in files : BitSet(env.mode, 2)}

\* the probe "Launch Agents/Daemons"
CheckLaunchAgents ==
    /\ events' = <<"scan">>
    /\ result' = [op |-> "check_launch_agents", confirmed |-> FALSE, raised |-> FALSE,
                  detected |-> check_launch_agents(agentFiles, hostEnv),
                  prev |-> PrevTag]
    /\ UNCHANGED <<clock, qdirExists, agentVars, loginVars, portVars, profiles,
                   storeVars, hostEnv>>

\* the probe "World-writable/Suspicious Files"
CheckWorldWritable ==
    /\ events' = <<"scan">>
    /\ result' = [op |-> "check_world_writable", confirmed |-> FALSE, raised |-> FALSE,
                  detected |-> check_world_writable(agentFiles, hostEnv),
                  prev |-> PrevTag]
    /\ UNCHANGED <<clock, qdirExists, agentVars, loginVars, portVars, profiles,
                   storeVars, hostEnv>>

----------------------------------------------------------------------------
(* Initial states and specifications *)

NoResult == [op |-> "none", confirmed |-> FALSE, raised |-> FALSE, prev |-> "other"]

\* what may lie below QUARANTINE_DIR/agents when the tool starts: no code of
\* this version writes there, the directory is found as an earlier layout or
\* the user left it
AgentsCatInits ==
    {NoAgentsCat} \cup
    {c \in [exists : {TRUE}, subdirs : SUBSET SubdirNames,
            entries : SubsetsUpTo(CatEntrySpace, MaxCatEntries), loose : BOOLEAN] :
        /\ \A e \in c.entries : e.sub \in c.subdirs
        /\ \A e1, e2 \in c.entries : (e1.sub = e2.sub /\ e1.name = e2.name) => e1 = e2}

\* the order in which System Events lists the items it holds
LoginItemRank(item) ==
    CASE item.name = "Dropbox"   -> 1
      [] item.name = "helper"    -> 2
      [] item.name = "Acme, Inc" -> 3
      [] OTHER                   -> 4

\* login-item lists without repeated items, in System Events order
LoginInits ==
    {s \in SeqsUpTo(LoginItemSpace, MaxLoginItems) :
        \A i, j \in 1..Len(s) : i < j => LoginItemRank(s[i]) < LoginItemRank(s[j])}

EmptyStore ==
    /\ clock = 0
    /\ backupFolders = {}
    /\ quarantined = {}
    /\ loginBackups = {}
    /\ portBackups = {}
    /\ logFile = NoLog
    /\ snapshots = {}
    /\ mdmState = NoFile
    /\ watchlist = NoWatchlist
    /\ hostEnv = NoHostEnv
    /\ events = <<>>
    /\ result = NoResult

InitAgents ==
    /\ EmptyStore
    /\ agentFiles \in SubsetsUpTo(AgentFileSpace, MaxAgentFiles)
    /\ agentsCat = NoAgentsCat
    /\ qdirExists = FALSE
    /\ loginItems = <<>>
    /\ sockets = {}
    /\ profiles = {}

InitPurge ==
    /\ EmptyStore
    /\ agentFiles = {}
    /\ agentsCat \in AgentsCatInits
    /\ qdirExists = agentsCat.exists
    /\ loginItems = <<>>
    /\ sockets = {}
    /\ profiles = {}

InitLogin ==
    /\ EmptyStore
    /\ agentFiles = {}
    /\ agentsCat = NoAgentsCat
    /\ qdirExists = FALSE
    /\ loginItems \in LoginInits
    /\ sockets = {}
    /\ profiles = {}

\* lists of login items whose target System Events can name, without
\* repeated items, in any order
LoginOrders ==
    {s \in SeqsUpTo({x \in LoginItemSpace : x.path # ""}, MaxLoginItems) :
        \A i, j \in 1..Len(s) : i # j => s[i] # s[j]}

InitRestoreLogin ==
    /\ EmptyStore
    /\ agentFiles = {}
    /\ agentsCat = NoAgentsCat
    /\ qdirExists = FALSE
    /\ loginItems \in LoginOrders
    /\ sockets = {}
    /\ profiles = {}

\* hosts on which the tool was used a second ago for one kind of work:
\* quarantine and forensics, login items, ports, or profiles
InitConfirm ==
    /\ clock = 1
    /\ qdirExists = TRUE
    /\ agentFiles = {}
    /\ backupFolders = {}
    /\ quarantined = {}
    /\ watchlist = NoWatchlist
    /\ hostEnv = NoHostEnv
    /\ events = <<>>
    /\ result = NoResult
    /\ \/ /\ agentsCat = [exists |-> TRUE, subdirs |-> {"backup_1"},
                           entries |-> {[sub |-> "backup_1", name |-> "com.foo.plist",
                                         isdir |-> FALSE]},
                           loose |-> FALSE]
          /\ logFile = [exists |-> TRUE, lines |-> <<"exported">>]
          /\ snapshots = {[ts |-> 0, data |-> [profiles |-> {}, mdm |-> "MDM enrollment: No"]]}
          /\ loginItems = <<>> /\ loginBackups = {}
          /\ sockets = {} /\ portBackups = {}
          /\ profiles = {} /\ mdmState = NoFile
       \/ /\ loginItems = <<[name |-> "Dropbox", path |-> "/Applications/Dropbox.app"]>>
          /\ loginBackups = {[ts |-> 0,
                              data |-> [name |-> "helper", path |-> "/usr/local/bin/helper.sh",
                                        kind |-> "Script"]]}
          /\ agentsCat = NoAgentsCat /\ logFile = NoLog /\ snapshots = {}
          /\ sockets = {} /\ portBackups = {}
          /\ profiles = {} /\ mdmState = NoFile
       \/ /\ sockets = {s \in SocketSpace : s.port = "8080"}
          /\ portBackups = {[ts |-> 0,
                             data |-> check_network_listeners(
                                          {s \in SocketSpace : s.port = "8080"})]}
          /\ agentsCat = NoAgentsCat /\ logFile = NoLog /\ snapshots = {}
          /\ loginItems = <<>> /\ loginBackups = {}
          /\ profiles = {} /\ mdmState = NoFile
       \/ /\ profiles = {p \in ProfileSpace : p.id = "com.vpn.free"}
          /\ mdmState \in MdmStatuses \cup {NoFile}
          /\ agentsCat = NoAgentsCat /\ logFile = NoLog /\ snapshots = {}
          /\ loginItems = <<>> /\ loginBackups = {}
          /\ sockets = {} /\ portBackups = {}

\* one file in the agent directories, with any permission bits, scanned by
\* any user
InitDetect ==
    /\ clock = 0
    /\ backupFolders = {}
    /\ quarantined = {}
    /\ loginBackups = {}
    /\ portBackups = {}
    /\ logFile = NoLog
    /\ snapshots = {}
    /\ mdmState = NoFile
    /\ watchlist = NoWatchlist
    /\ events = <<>>
    /\ result = NoResult
    /\ agentFiles \in {{f} : f \in DetectFileSpace}
    /\ agentsCat = NoAgentsCat
    /\ qdirExists = FALSE
    /\ loginItems = <<>>
    /\ sockets = {}
    /\ profiles = {}
    /\ hostEnv \in {[NoHostEnv EXCEPT !.mode = m, !.who = w] : m \in Modes, w \in UserClasses}

InitPorts ==
    /\ EmptyStore
    /\ agentFiles = {}
    /\ agentsCat = NoAgentsCat
    /\ qdirExists = FALSE
    /\ loginItems = <<>>
    /\ sockets \in SubsetsUpTo(SocketSpace, MaxSockets)
    /\ profiles = {}

\* the host on which the command restore_ports is started: at most one of
\* the sockets of SocketSpace is open
InitRestorePorts ==
    /\ EmptyStore
    /\ agentFiles = {}
    /\ agentsCat = NoAgentsCat
    /\ qdirExists = FALSE
    /\ loginItems = <<>>
    /\ sockets \in SubsetsUpTo(SocketSpace, 1)
    /\ profiles = {}

\* a host with a removable profile and one whose identifier is empty; the
\* tool is freshly installed or was used before
InitForensics ==
    /\ EmptyStore
    /\ agentFiles = {}
    /\ agentsCat = NoAgentsCat
    /\ qdirExists \in BOOLEAN
    /\ loginItems = <<>>
    /\ sockets = {}
    /\ profiles = {p \in ProfileSpace \cup UnidentifiedProfiles : p.id \in {"com.vpn.free", ""}}

InitProfiles ==
    /\ EmptyStore
    /\ agentFiles = {}
    /\ agentsCat = NoAgentsCat
    /\ qdirExists \in BOOLEAN
    /\ loginItems = <<>>
    /\ sockets = {}
    /\ profiles \in SUBSET (ProfileSpace \cup UnidentifiedProfiles)

\* hosts on which at most MaxFaults probes meet a failure
InitProbes ==
    /\ clock = 0
    /\ backupFolders = {}
    /\ quarantined = {}
    /\ loginBackups = {}
    /\ portBackups = {}
    /\ logFile = NoLog
    /\ snapshots = {}
    /\ mdmState = NoFile
    /\ watchlist = NoWatchlist
    /\ events = <<>>
    /\ result = NoResult
    /\ agentFiles = {}
    /\ agentsCat = NoAgentsCat
    /\ qdirExists = FALSE
    /\ loginItems = <<>>
    /\ sockets = {}
    /\ profiles = {}
    /\ hostEnv \in {e \in [faults : FaultSets(MaxFaults),
                            alerts : SUBSET AlertChoices,
                            mdm : {"MDM enrollment: No"}, missing : {{}},
                            mode : {420}, who : {"root"}] :
                        \A f, g \in e.faults : f.probe = g.probe => f = g}

\* one host with something of every kind to remediate
Init ==
    /\ EmptyStore
    /\ agentFiles = {[dir |-> UserLaunchAgentsDir, name |-> "com.foo.plist"]}
    /\ agentsCat = NoAgentsCat
    /\ qdirExists = FALSE
    /\ loginItems = <<[name |-> "Dropbox", path |-> "/Applications/Dropbox.app"]>>
    /\ sockets = {s \in SocketSpace : s.port = "8080"}
    /\ profiles = {p \in ProfileSpace : ~p.mdm}

NextAgents == QuarantineAgents \/ RestoreAgents \/ Tick

NextPurge == ManageRestore \/ ManagePurge

NextLogin == BackupLoginItem \/ RemoveLoginItem \/ Tick

NextRestoreLogin ==
    \/ BackupLoginItem
    \/ RemoveLoginItem
    \/ RestoreLoginItem
    \/ DeleteLoginBackup
    \/ PathVanishes

\* the operations that ask (y/n) before they destroy something
NextConfirm ==
    \/ ManagePurge
    \/ ClearLog
    \/ ClearSnapshots
    \/ DeleteLoginBackup
    \/ DeletePortBackup
    \/ RemoveLoginItem
    \/ ClosePort
    \/ RemoveProfile
    \/ Uninstall

NextDetect == CheckLaunchAgents \/ CheckWorldWritable

NextPorts == BackupPortState \/ ClosePort \/ Tick

NextRestorePorts == RestorePortState

NextForensics ==
    \/ ExportSnapshot
    \/ CompareSnapshots
    \/ ClearSnapshots
    \/ RemoveProfile
    \/ Tick

NextLog ==
    \/ ExportSnapshot
    \/ CompareSnapshots
    \/ ClearLog
    \/ Uninstall
    \/ Tick

NextProfiles ==
    \/ ViewProfiles
    \/ RemoveProfile
    \/ AutoRemoveProfile
    \/ Uninstall
    \/ EnrollmentChanges
    \/ ProfileReappears

NextProbes == RunAllChecks

\* the four remediation paths on one host
Next ==
    \/ RemoveProfile
    \/ QuarantineAgents
    \/ RemoveLoginItem
    \/ ClosePort

SpecRestoreLogin == InitRestoreLogin /\ [][NextRestoreLogin]_vars

SpecConfirm == InitConfirm /\ [][NextConfirm]_vars

SpecDetect == InitDetect /\ [][NextDetect]_vars

SpecAgents == InitAgents /\ [][NextAgents]_vars
SpecPurge  == InitPurge /\ [][NextPurge]_vars
SpecRestorePorts == InitRestorePorts /\ [][NextRestorePorts]_vars
SpecLogin  == InitLogin /\ [][NextLogin]_vars
SpecPorts  == InitPorts /\ [][NextPorts]_vars
SpecForensics == InitForensics /\ [][NextForensics]_vars
SpecLog       == InitForensics /\ [][NextLog]_vars
SpecProfiles  == InitProfiles /\ [][NextProfiles]_vars
SpecProbes    == InitProbes /\ [][NextProbes]_vars
Spec       == Init /\ [][Next]_vars

----------------------------------------------------------------------------
(* Properties *)

\* C1: in every remediation path a backup record is written to the
\* Quarantine Store strictly before the mutating step (move, login-item
\* delete, kill, profile remove) is attempted.
C1_BackupBeforeDestroy ==
    \A j \in 1..Len(events) :
        events[j] \in MutationKinds => \E i \in 1..(j - 1) : events[i] = "backup_write"

\* C2: when the backup step of close_port_process or remove_login_item did
\* not write its record, the operation reports failure and neither kill nor
\* the login-item delete command is invoked.
C2_NoDestroyAfterFailedBackup ==
    (/\ result.op \in {"close_port", "remove_login_item"}
     /\ "backup_write" \notin Range(events))
    => /\ ~result.ok
       /\ "kill" \notin Range(events)
       /\ "login_delete" \notin Range(events)

C2_Witness ==
    /\ result.op = "close_port"
    /\ result.confirmed
    /\ "lookup" \in Range(events)
    /\ "write_failed" \in Range(events)
    /\ ~result.ok

\* C3 as stated: remove(name) for an existing login item goes on to the
\* delete command even when its backup could not be written.
C3_RemovalAlwaysPossible ==
    (/\ result.op = "remove_login_item"
     /\ result.confirmed
     /\ result.found)
    => "login_delete" \in Range(events)

\* C3 amended: remove(name) for an existing login item never looks for an
\* earlier backup; it writes its own record and invokes the delete command
\* exactly when that write succeeded, and a successful removal leaves that
\* record in the store.
C3_RemovalNeedsOwnBackup ==
    (/\ result.op = "remove_login_item"
     /\ result.confirmed
     /\ result.found)
    => /\ ("login_delete" \in Range(events)) <=> ("backup_write" \in Range(events))
       /\ result.ok => \E r \in loginBackups : r.ts = result.ts /\ r.data.name = result.name

C3_Witness ==
    /\ result.op = "remove_login_item"
    /\ result.confirmed
    /\ result.found
    /\ result.nBefore = 0
    /\ result.ok
    /\ "login_delete" \in Range(events)

\* C4: a successful backup write adds one record to its category and leaves
\* every record that was there before in place, also when the previous write
\* happened in the same second.
C4_WritesAreDistinct ==
    /\ (/\ result.op \in {"backup_login_item", "remove_login_item"}
        /\ "backup_write" \in Range(events))
       => /\ result.preserved
          /\ Cardinality(loginBackups) = result.nBefore + 1
    /\ (/\ result.op \in {"backup_port_state", "close_port"}
        /\ "backup_write" \in Range(events))
       => /\ result.preserved
          /\ Cardinality(portBackups) = result.nBefore + 1

\* C5: restore_port_state reports success only if at least one entry was
\* restarted.
C5_SuccessNeedsARestart ==
    result.op = "restore_port_state" => (result.ok => result.success_count >= 1)

C7_PartialFailure ==
    (result.op = "quarantine" /\ ~result.raised)
    => /\ Len(result.attempts) = Len(result.selected)
       /\ \A i \in 1..Len(result.selected) : result.attempts[i].file = result.selected[i]
       /\ \A f \in Range(result.selected) :
             IF \E i \in 1..Len(result.attempts) :
                    result.attempts[i].file = f /\ result.attempts[i].ok
             THEN /\ [ts |-> result.ts, name |-> f.name, from |-> f.dir] \in quarantined
                  /\ f \notin find_unsigned_agents(agentFiles)
             ELSE /\ f \in agentFiles
                  /\ f \in find_unsigned_agents(agentFiles)

\* a failed move followed by a successful one, in one call
C7_Witness ==
    /\ result.op = "quarantine"
    /\ ~result.raised
    /\ Len(result.attempts) = 2
    /\ ~result.attempts[1].ok
    /\ result.attempts[2].ok
    /\ result.attempts[1].file \in agentFiles
    /\ result.attempts[2].file \notin agentFiles

\* C8: a file that restore_agents moves back ends up in the directory that
\* quarantine_agents took it from.
C8_RestoredToOrigin ==
    result.op = "restore_agents" => \A r \in result.restored : r.to = r.from

\* C9: every file that sits in a backup folder made by quarantine_agents is
\* in the list of quarantined agents that manage_unsigned offers for restore
\* and purge.
C9_QuarantinedAreListed ==
    \A q \in quarantined : \E e \in QuarantinedList(agentsCat) : e.name = q.name

C12_DiffIsSetDifference ==
    (result.op = "compare" /\ result.outcome = "done")
    => LET has(snap, id) == \E p \in snap.profiles : p.id = id
           named(id) == id # "" /\ id # NoIdentifier
           seen == {p.id : p \in result.snap1.profiles \cup result.snap2.profiles}
                   \cup result.added \cup result.removed
       IN  /\ \A id \in seen :
                /\ id \in result.added
                   <=> (named(id) /\ has(result.snap2, id) /\ ~has(result.snap1, id))
                /\ id \in result.removed
                   <=> (named(id) /\ has(result.snap1, id) /\ ~has(result.snap2, id))
           /\ result.snap1 = result.snap2
              => (result.added = {} /\ result.removed = {})

\* a comparison in which the second snapshot alone holds a named profile and
\* a profile with an empty identifier
C12_Witness ==
    /\ result.op = "compare"
    /\ result.outcome = "done"
    /\ result.added = {"com.vpn.free"}
    /\ \E p \in result.snap2.profiles : p.id = ""
    /\ ~\E p \in result.snap1.profiles : p.id = ""

\* C13: every 'Compare snapshots' action, whether it finds changes, finds
\* none, or fails, appends one entry to the timeline log: the log grows and
\* exactly one of the new lines is the header of a comparison.
C13_EveryCompareLogged ==
    result.op = "compare"
    => /\ Len(logFile.lines) > result.linesBefore
       /\ Cardinality({i \in (result.linesBefore + 1)..Len(logFile.lines) :
                          logFile.lines[i] = "compared"}) = 1

\* effects that the timeline log is said to record: a backup record written,
\* an agent moved into quarantine or back, a process restarted, a login item
\* restored, a snapshot written, a purge carried out
LoggedKinds == {"backup_write", "move", "restore", "restarted", "snapshot_write", "purged"}

\* C14: every step of the tool that carries out a backup, a quarantine, a
\* restore, a snapshot export or a purge appends an entry to the timeline log.
C14_ActionsAreLogged ==
    [][(/\ clock' = clock
        /\ hostEnv' = hostEnv
        /\ Range(events') \cap LoggedKinds # {})
       => Len(logFile'.lines) > Len(logFile.lines)]_vars

\* C15: every step leaves the timeline log as it was with zero or more lines
\* added at its end, or removes the file as a whole through a confirmed
\* clear or uninstall; no earlier line is rewritten, moved or dropped.
C15_LogAppendOnly ==
    [][\/ /\ logFile.exists => logFile'.exists
          /\ Len(logFile'.lines) >= Len(logFile.lines)
          /\ SubSeq(logFile'.lines, 1, Len(logFile.lines)) = logFile.lines
       \/ /\ logFile' = NoLog
          /\ result'.op \in {"clear_log", "uninstall"}
          /\ result'.confirmed]_vars

\* a finished comparison wrote its entry behind two lines of earlier exports
C15_Witness ==
    /\ result.op = "compare"
    /\ result.outcome = "done"
    /\ result.linesBefore >= 2
    /\ Len(logFile.lines) > result.linesBefore
    /\ logFile.lines[1] = "exported"

\* C16: a snapshot file, once written, keeps its content through every later
\* step; it only disappears, and only through a confirmed 'Clear all
\* snapshots' or uninstall.
C16_SnapshotsImmutable ==
    [][\A s \in snapshots :
          \/ s \in snapshots'
          \/ /\ ~\E t \in snapshots' : t.ts = s.ts
             /\ result'.op \in {"clear_snapshots", "uninstall"}
             /\ result'.confirmed]_vars

\* C17: an 'Export snapshot' started while the quarantine root does not
\* exist creates the missing directories instead of failing on them.
C17_RootCreatedOnFirstUse ==
    (result.op = "export" /\ ~result.rootBefore)
    => /\ "mkdir_failed" \notin Range(events)
       /\ qdirExists

\* C18: no operation of the resource managers ends in an uncaught exception,
\* whatever the input and whatever fails below it.
C18_ManagersNeverRaise ==
    result.op \in {"quarantine", "restore_agents", "purge", "backup_login_item",
                   "remove_login_item", "backup_port_state", "close_port",
                   "restore_port_state", "remove_profile", "auto_remove"}
    => ~result.raised

\* C19: a run of all checks always completes and returns a finding for every
\* probe, whatever fails below a probe, and every status is one of OK, ALERT,
\* ERROR, SUGGESTION, UNKNOWN.
C19_ProbesNeverRaise ==
    result.op = "run_all_checks"
    => /\ ~result.raised
       /\ \A i \in 1..Len(result.findings) : result.findings[i].status \in FindingStatuses
       /\ \A pr \in ProbeNames :
             \E i \in 1..Len(result.findings) : result.findings[i].probe = pr

\* C20: on the manual and on the monitor path, the removal of a profile that
\* is not removable fails without the `profiles remove' command being run,
\* and the profile stays installed.
C20_LockedRejected ==
    (result.op \in {"remove_profile", "auto_remove"} /\ result.locked)
    => /\ ~result.ok
       /\ "profile_remove" \notin Range(events)
       /\ \E p \in profiles : p.id = result.id /\ ~p.removable

\* the monitor path was asked to remove the locked profile, with the store
\* root present so that the menu got as far as the selection
C20_Witness ==
    /\ result.op = "auto_remove"
    /\ result.locked
    /\ result.id = "com.locked.cfg"
    /\ mdmState # NoFile

\* C21: backup_port_state with no listener present fails without raising,
\* makes no directory and writes no file, and leaves every earlier record of
\* the ports store in place; a call that succeeds wrote one record, and that
\* record holds every listener lsof reported.
C21_NoListenersNoBackup ==
    result.op = "backup_port_state" =>
        LET listeners == check_network_listeners(sockets)
            writes == {i \in 1..Len(events) : events[i] = "backup_write"}
        IN  /\ ~result.raised
            /\ listeners = {} =>
                 /\ ~result.ok
                 /\ events = <<>>
                 /\ result.preserved
                 /\ Cardinality(portBackups) = result.nBefore
            /\ listeners # {} /\ result.ok =>
                 /\ Cardinality(writes) = 1
                 /\ [ts |-> result.ts, data |-> listeners] \in portBackups
                 /\ Cardinality(portBackups) <= result.nBefore + 1
            /\ ~result.ok => result.preserved /\ writes = {}

\* a host whose only open sockets are not listening
C21_Witness ==
    /\ result.op = "backup_port_state"
    /\ sockets # {}
    /\ check_network_listeners(sockets) = {}
    /\ ~result.ok

\* C22: restore_login_item on a record whose path is None or names a file
\* that is no longer on disk returns failure and adds no login item.
C22_MissingPathRejected ==
    (result.op = "restore_login_item" /\ result.confirmed /\ result.pathMissing)
        => (~result.ok /\ ~result.added)

\* C23: a login item that was listed, backed up and removed, and whose
\* record is then restored with success, is listed again with the name, the
\* path and the kind the record holds.
C23_RemoveRestoreRoundTrip ==
    (/\ result.op = "restore_login_item"
     /\ result.ok
     /\ result.after = result.rec.name)
        => \E i \in 1..Len(get_login_items(loginItems)) :
              get_login_items(loginItems)[i] = result.rec

\* C26: every entry get_login_items returns carries either no path or the
\* path of the System Events item its name comes from, never the path of
\* another item; its kind is Application exactly when it has a path ending
\* in .app.
C26_PathsBelongToTheirItem ==
    LET listing == get_login_items(loginItems)
    IN  \A i \in 1..Len(listing) :
          /\ listing[i].path # NoPath =>
               \E k \in 1..Len(loginItems) :
                  /\ listing[i].name \in Range(SplitComma(loginItems[k].name))
                  /\ loginItems[k].path = listing[i].path
          /\ listing[i].kind = "Application"
               <=> (listing[i].path # NoPath /\ EndsWithApp(listing[i].path))

\* C24: the launch-agent probe reports a file of the scanned directories
\* exactly when its name holds a denylist keyword, or it is world-writable,
\* or it is not signed; a signed file matching only the keyword is reported.
C24_DetectionIsTheOrOfSignals ==
    result.op = "check_launch_agents" =>
        \A f \in agentFiles :
            (f \in {d.file : d \in result.detected})
                <=> (HasKeyword(f.name) \/ BitSet(hostEnv.mode, 2) \/ is_unsigned(f))

\* C30: is_world_writable is true of a file exactly when the bit 0o002 of
\* its mode is set.
C30_WorldWritableIsTheOtherWriteBit ==
    result.op = "check_launch_agents" =>
        (is_world_writable(hostEnv.mode, hostEnv.who) <=> BitSet(hostEnv.mode, 2))

\* C25: when close_port sends the kill, the steps of the call were lookup,
\* backup write, kill in this order, and the process killed is one that was
\* listening on the port at the lookup.
C25_KillsOnlyTheListener ==
    (result.op = "close_port" /\ "kill" \in Range(events)) =>
        /\ events = <<"lookup", "mkdir", "backup_write", "kill">>
        /\ result.target.port = result.port
        /\ result.target.listening

\* the operations of C27, by the name their result carries
PromptOps ==
    {"purge", "clear_log", "clear_snapshots", "delete_login_backup", "delete_port_backup",
     "remove_login_item", "close_port", "remove_profile", "uninstall"}

ProfileMenuOps == {"profile_menu", "remove_profile", "auto_remove"}

\* C28: a visit of the profile/MDM menu that gets past its entry leaves
\* mdm_state.json equal to the enrollment status it observed; it shows the
\* "changed" alert exactly when the file existed with another content; it
\* does not write the file when the content was already equal.
C28_MdmStateFollowsEnrollment ==
    [][(result'.op \in ProfileMenuOps /\ ~result'.raised /\ hostEnv' = hostEnv)
         => /\ mdmState' = hostEnv.mdm
            /\ result'.alert <=> (mdmState # NoFile /\ mdmState # hostEnv.mdm)
            /\ mdmState = hostEnv.mdm => ~result'.written]_vars

\* the menu was entered after the enrollment status had changed
C28_Witness ==
    /\ result.op = "profile_menu"
    /\ ~result.raised
    /\ result.alert
    /\ result.written
    /\ mdmState = hostEnv.mdm
    /\ mdmState = "MDM enrollment: Yes"

\* C29: after every step the watchlist holds no identifier twice and every
\* identifier in it is that of a non-MDM, removable profile; the watchlist
\* grows only by the identifier of a monitor action whose removal command
\* succeeded, and a refused or failed monitor action leaves it as it was.
C29_WatchlistOnlyRemovedProfiles ==
    [][/\ \A i, j \in 1..Len(watchlist'.ids) :
             i # j => watchlist'.ids[i] # watchlist'.ids[j]
       /\ \A i \in 1..Len(watchlist'.ids) :
             \E p \in ProfileSpace \cup UnidentifiedProfiles :
                p.id = watchlist'.ids[i] /\ ~p.mdm /\ p.removable
       /\ (watchlist'.ids # watchlist.ids /\ watchlist' # NoWatchlist) =>
             /\ result'.op = "auto_remove"
             /\ result'.ok
             /\ ~result'.known
             /\ watchlist'.ids = Append(watchlist.ids, result'.id)
             /\ \A p \in profiles : p.id = result'.id => p \notin profiles'
       /\ (result'.op = "auto_remove" /\ ~result'.ok /\ hostEnv' = hostEnv) =>
             watchlist' = watchlist]_vars

\* a profile on the watchlist came back and a second monitor action removed
\* it again
C29_Witness ==
    /\ result.op = "auto_remove"
    /\ result.confirmed
    /\ result.ok
    /\ result.known
    /\ watchlist.ids = <<"com.vpn.free">>

====
